---- MODULE Spec2Model ----
(***************************************************************************)
(* A model of the peer-to-peer NetworkMonitor of the relay node            *)
(* (src/unnamed/part_001) together with the three collaborators it drives: *)
(* PeerStorage, PeerProcessor and PeerCommunicator.  The collaborators'    *)
(* code is not part of the source tree; they are modelled from their       *)
(* documented behaviour (spec.md, sections 4.1 - 4.3).                     *)
(*                                                                         *)
(* JavaScript runs every function to completion up to its next await, so   *)
(* an action of the model is one such synchronous segment.                 *)
(***************************************************************************)
EXTENDS Integers, Sequences, FiniteSets, TLC

\* ------------------------------------------------------------------ bounds
NumIPs == 2
MaxHeight == 2
MaxPasses == 2
MaxSyncDepth == 2
MaxStatePeers == 3
MaxClock == 4

\* ----------------------------------------------------------------- values
\* An IP address is modelled by its host number 11, 12, ...; the numbers
\* 0 .. 9 are left to the array indices Object.keys() yields.
IPs == {10 + i : i \in 1..NumIPs}
NoIP == 0
Heights == 1..MaxHeight

\* verification = null ("not yet verified")
NULL == [verified |-> FALSE, forked |-> FALSE, highestCommonHeight |-> 0]
Verified == {[verified |-> TRUE, forked |-> f, highestCommonHeight |-> h] :
                f \in BOOLEAN, h \in Heights}
Verifications == {NULL} \cup Verified
OnChain == [verified |-> TRUE, forked |-> FALSE, highestCommonHeight |-> MaxHeight]

Peer(ip, port) == [ip |-> ip, port |-> port, verification |-> NULL]
\* the value `undefined` where a Peer is expected
UndefinedPeer == [ip |-> NoIP, port |-> 0, verification |-> NULL]

\* appConfig "peers.list" and the peers restored from the previous run
Ports == {4001, 4002}
peerList == << [ip |-> 11, port |-> 4001], [ip |-> 12, port |-> 4001] >>
cachedPeers == << [ip |-> 11, port |-> 4002], [ip |-> 12, port |-> 4001] >>
minimumNetworkReach == 2
ignoreMinimumNetworkReach == FALSE
queryAtLeastNPeers == 4
\* nextRunDelaySeconds of updateNetworkStatus
Delays == {5, 600}
Options == [networkStart : BOOLEAN, disableDiscovery : BOOLEAN,
            skipDiscovery : BOOLEAN, testEnv : BOOLEAN]
NoOptions == [networkStart |-> FALSE, disableDiscovery |-> FALSE,
              skipDiscovery |-> FALSE, testEnv |-> FALSE]
Passes == 1..MaxPasses

VARIABLES
    peers,            \* PeerStorage: the active Peer records
    suspendedPeers,   \* PeerStorage: the Peer records of the suspensions
    pinging,          \* IPs whose initial ping (validateAndAcceptPeer) is in flight
    disc_pc, disc_todo, disc_queried, disc_wait,   \* discoverPeers
    refresh_pc,       \* refreshPeersAfterFork
    cleanLog,         \* what the last cleanPeers pass did
    config,           \* the options given to start, and the test environment
    start_pc,         \* start
    uns_pc,           \* the running updateNetworkStatus calls
    nextUpdateNetworkStatusScheduled,
    timers,           \* the pending delays of scheduleUpdateNetworkStatus
    nextRunDelaySeconds,  \* per pass: the delay it asks for, 0 before it has one
    uns_error,        \* per pass: the error its catch logged as "Network Status: ..."
    coldStartActive,  \* isColdStartActive(): coldStartPeriod is in the future
    health_pc,        \* checkNetworkHealth
    healthResult,     \* what checkNetworkHealth gave its caller
    state_pc,         \* getNetworkState
    sync_pc,          \* syncWithNetwork
    sync_depth,       \* how many times the call has called itself
    sync_error,       \* the error its catch block holds
    sync_logged,      \* its "Could not download blocks" log lines
    sync_download,    \* the downloadBlocks call it issued last
    sync_result,      \* what its caller got
    bb_pc,            \* broadcastBlock
    bb_block,         \* the id of the block it broadcasts
    bb_ping,          \* its blockPing, as last read
    bb_peers,         \* its local `peers`
    bb_posts,         \* the postBlock calls it issued
    bb_pending,       \* those of them that have not settled
    bb_result,        \* what its caller got
    bt_pc,            \* broadcastTransactions
    bt_n,             \* how many active peers there were when it was called
    bt_posts,         \* the postTransactions calls it issued
    bt_pending,       \* those of them that have not settled
    bt_result,        \* what its caller got
    net_down,         \* the IPs that answer no ping at present
    peerStates,       \* getPeers().map(peer => peer.state), for the derivations
    derive_pc,        \* getNetworkHeight / getPBFTForgingStatus
    slotNumber,       \* what slots.getSlotNumber() gave
    networkHeight,    \* what getNetworkHeight returned
    pbft,             \* what getPBFTForgingStatus returned, as a fraction
    now,              \* the clock
    lastPinged,       \* peer.lastPinged of the one peer pinged, 0 for null
    peerStatus,       \* the last status that peer gave, 0 for none
    pingCall,         \* communicator.ping(peer, timeout, forcePing), the call
    peersList,        \* appConfig.get("peers.list")
    stateForkedBlock  \* app.resolve("state").forkedBlock: its ip, NoIP for none

storageVars == << peers, suspendedPeers, pinging >>
discVars == << disc_pc, disc_todo, disc_queried, disc_wait >>
lifeVars == << discVars, refresh_pc, cleanLog >>
schedVars == << config, start_pc, uns_pc, nextUpdateNetworkStatusScheduled, timers,
               nextRunDelaySeconds, uns_error >>
healthVars == << coldStartActive, health_pc, healthResult, state_pc >>
syncVars == << sync_pc, sync_depth, sync_error, sync_logged, sync_download, sync_result >>
bbVars == << bb_pc, bb_block, bb_ping, bb_peers, bb_posts, bb_pending, bb_result >>
btVars == << bt_pc, bt_n, bt_posts, bt_pending, bt_result >>
bcVars == << bbVars, btVars >>
netVars == << net_down >>
deriveVars == << peerStates, derive_pc, slotNumber, networkHeight, pbft >>
pingVars == << now, lastPinged, peerStatus, pingCall >>
seedVars == << peersList >>
forkVars == << stateForkedBlock >>
notLife == << schedVars, healthVars, syncVars, bcVars, netVars, deriveVars, pingVars, seedVars, forkVars >>

\* ------------------------------------------------------------ PeerStorage
ipsOf(ps) == {p.ip : p \in ps}
hasPeer(ps, ip) == ip \in ipsOf(ps)
hasSuspendedPeer(ss, ip) == ip \in ipsOf(ss)
getPeer(ps, key) == IF hasPeer(ps, key) THEN CHOOSE p \in ps : p.ip = key
                    ELSE UndefinedPeer
setPeer(ps, p) == {q \in ps : q.ip # p.ip} \cup {p}
forgetPeer(ps, p) == {q \in ps : q.ip # p.ip}
setSuspendedPeer(ss, p) == {q \in ss : q.ip # p.ip} \cup {p}
\* getPeers() is the array of the records; Object.keys() of an array is its
\* indices "0" .. "n-1"
getPeers(ps) == ps
ObjectKeys(arr) == 0..(Cardinality(arr) - 1)

\* the three storage variables as one value, so that the processor's
\* operations compose
Storage(ps, ss, pg) == [peers |-> ps, suspended |-> ss, pinging |-> pg]

\* ---------------------------------------------------------- PeerProcessor
\* suspend: moves the peer from the active set to the suspended set
suspend(st, ip) ==
    IF hasSuspendedPeer(st.suspended, ip) THEN st
    ELSE LET p == IF hasPeer(st.peers, ip) THEN getPeer(st.peers, ip)
                  ELSE Peer(ip, 4001)
         IN  [st EXCEPT !.suspended = setSuspendedPeer(@, p),
                        !.peers = forgetPeer(@, p)]

\* validateAndAcceptPeer up to its first await: a suspended candidate is not
\* re-accepted, an invalid one (blacklist, version, nethash) is suspended,
\* a valid one is inserted and its initial ping issued
validateAndAcceptPeer(st, c, valid) ==
    IF hasSuspendedPeer(st.suspended, c.ip) THEN st
    ELSE IF ~valid THEN suspend(st, c.ip)
    ELSE IF hasPeer(st.peers, c.ip) THEN st
    ELSE [st EXCEPT !.peers = setPeer(@, Peer(c.ip, c.port)),
                    !.pinging = @ \cup {c.ip}]

\* resetSuspendedPeers: the suspensions whose `until` has passed are removed
resetSuspendedPeers(ss, expired) == {s \in ss : s.ip \notin expired}

\* the initial ping of validateAndAcceptPeer settles: a reply refreshes the
\* peer (the fork check sets its verification), a failure suspends it
pingReply(ps, ip, v) ==
    {IF p.ip = ip THEN [p EXCEPT !.verification = v] ELSE p : p \in ps}

\* --------------------------------------------------------- NetworkMonitor
hasMinimumPeers(ps) ==
    IF ignoreMinimumNetworkReach THEN TRUE
    ELSE Cardinality(ObjectKeys(getPeers(ps))) >= minimumNetworkReach

\* populateSeedPeers: peers.list, then the restored peers that are not in it
\* (same ip and port)
RECURSIVE mergePeers(_, _)
mergePeers(list, more) ==
    IF more = << >> THEN list
    ELSE LET peerA == Head(more)
             known == \E i \in 1..Len(list) :
                         peerA.ip = list[i].ip /\ peerA.port = list[i].port
         IN  mergePeers(IF known THEN list ELSE Append(list, peerA), Tail(more))

seedPeers == mergePeers(peerList, cachedPeers)

\* appConfig.get("peers.list"): a list, or nothing when the key is not configured
Configured(list) == [defined |-> TRUE, list |-> list]
NotConfigured == [defined |-> FALSE, list |-> << >>]
\* !peerList: an array, empty or not, is truthy
noPeerList(cfgList) == ~cfgList.defined
Range(seq) == {seq[i] : i \in 1..Len(seq)}

\* one element of the final map of populateSeedPeers
acceptSeed(st, peer, valid) ==
    validateAndAcceptPeer([st EXCEPT !.peers = forgetPeer(@, peer)], peer, valid)

RECURSIVE acceptSeeds(_, _, _)
acceptSeeds(st, list, bad) ==
    IF list = << >> THEN st
    ELSE acceptSeeds(acceptSeed(st, Head(list), Head(list).ip \notin bad),
                     Tail(list), bad)

populateSeedPeers(list, st, bad) == acceptSeeds(st, mergePeers(list, cachedPeers), bad)

\* hisPeers.map(p => validateAndAcceptPeer(p)) of discoverPeers
RECURSIVE acceptAll(_, _, _)
acceptAll(st, ips, bad) ==
    IF ips = {} THEN st
    ELSE LET ip == CHOOSE i \in ips : TRUE
         IN  acceptAll(validateAndAcceptPeer(st, Peer(ip, 4001), ip \notin bad),
                       ips \ {ip}, bad)

\* the ban of refreshPeersAfterFork
banOnlyRecords(st, ip) ==
    [st EXCEPT !.suspended = setSuspendedPeer(@, getPeer(st.peers, ip))]
banForkCauser(st, ip) == suspend(st, ip)

\* cleanPeers(fast, forcePing).  The keys are the indices of the array
\* getPeers() returns, so getPeer(key) finds a peer only if one has an index
\* as its ip; ping(undefined) fails, "peer.removed" is emitted with what
\* getPeer returned, and forgetPeer(undefined) throws, which rejects the
\* pass.  `unresponsive` are the IPs whose ping would fail.
cleanPeers(ps, unresponsive) ==
    LET keys == ObjectKeys(getPeers(ps))
        pinged == {getPeer(ps, k) : k \in keys}
        failed == {p \in pinged : p = UndefinedPeer \/ p.ip \in unresponsive}
    IN  [max |-> Cardinality(keys),
         pinged |-> pinged,
         removed |-> failed,
         peers |-> {p \in ps : p \notin failed},
         outcome |-> IF UndefinedPeer \in failed THEN "TypeError" ELSE "resolved"]

NoClean == [pinged |-> {}, removed |-> {}, outcome |-> "none"]
\* the peers a pass can reach, whose ping the network answers or not
pingable(ps) == {getPeer(ps, k).ip : k \in ObjectKeys(getPeers(ps))} \ {NoIP}

\* ================================================================ actions
\* syncWithNetwork calls itself without an await in between: while it runs,
\* no callback of the network or of another caller does
EventLoopFree == sync_pc \notin {"try", "catch"}

\* ---- the processor and the communicator, as the rest of the node and the
\* ---- network drive them
ValidateAndAcceptPeer(ip, port, valid) ==
    /\ EventLoopFree
    /\ LET st == validateAndAcceptPeer(Storage(peers, suspendedPeers, pinging),
                                       Peer(ip, port), valid)
       IN  /\ peers' = st.peers
           /\ suspendedPeers' = st.suspended
           /\ pinging' = st.pinging
           /\ UNCHANGED lifeVars
    /\ UNCHANGED notLife

PingOk(ip, v) ==
    /\ EventLoopFree
    /\ ip \in pinging
    /\ pinging' = pinging \ {ip}
    /\ peers' = pingReply(peers, ip, v)
    /\ suspendedPeers' = pingReply(suspendedPeers, ip, v)
    /\ UNCHANGED lifeVars
    /\ UNCHANGED notLife

PingFail(ip) ==
    /\ EventLoopFree
    /\ ip \in pinging
    /\ LET st == suspend(Storage(peers, suspendedPeers, pinging \ {ip}), ip)
       IN  /\ peers' = st.peers
           /\ suspendedPeers' = st.suspended
           /\ pinging' = st.pinging
    /\ UNCHANGED lifeVars
    /\ UNCHANGED notLife

Suspend(ip) ==
    /\ EventLoopFree
    /\ LET st == suspend(Storage(peers, suspendedPeers, pinging), ip)
       IN  /\ st.suspended # suspendedPeers
           /\ peers' = st.peers
           /\ suspendedPeers' = st.suspended
           /\ UNCHANGED << pinging, lifeVars >>
    /\ UNCHANGED notLife

ResetSuspendedPeers(expired) ==
    /\ EventLoopFree
    /\ expired # {}
    /\ expired \subseteq ipsOf(suspendedPeers)
    /\ suspendedPeers' = resetSuspendedPeers(suspendedPeers, expired)
    /\ UNCHANGED << peers, pinging, lifeVars >>
    /\ UNCHANGED notLife

\* ---- NetworkMonitor
PopulateSeedPeers(bad) ==
    /\ ~noPeerList(peersList)
    /\ LET st == populateSeedPeers(peersList.list,
                                   Storage(peers, suspendedPeers, pinging), bad)
       IN  /\ peers' = st.peers
           /\ suspendedPeers' = st.suspended
           /\ pinging' = st.pinging
    /\ UNCHANGED lifeVars
    /\ UNCHANGED notLife

CleanPeers(unresponsive) ==
    /\ unresponsive \subseteq pingable(peers)
    /\ LET pass == cleanPeers(peers, unresponsive)
       IN  /\ peers' = pass.peers
           /\ cleanLog' = [pinged |-> pass.pinged, removed |-> pass.removed,
                           outcome |-> pass.outcome]
    /\ UNCHANGED << suspendedPeers, pinging, discVars, refresh_pc >>
    /\ UNCHANGED notLife

\* discoverPeers: the shuffled snapshot, then one peer after the other
\* for (const peer of shuffledPeers) { ... await this.communicator.getPeers(peer):
\* the loop takes the next peer of the snapshot and asks it in the same turn,
\* or is over when none is left
DiscoverGetPeers(todo) ==
    IF todo = {}
    THEN /\ disc_pc' = "done"
         /\ disc_todo' = todo
    ELSE \E ip \in todo :
            /\ disc_todo' = todo \ {ip}
            /\ disc_pc' = "getPeers"

DiscoverStart ==
    /\ disc_pc = "idle"
    /\ disc_queried' = 0
    /\ disc_wait' = {}
    /\ DiscoverGetPeers(ipsOf(getPeers(peers)))
    /\ UNCHANGED << storageVars, refresh_pc, cleanLog >>
    /\ UNCHANGED notLife

DiscoverReply(hisPeers, bad) ==
    /\ disc_pc = "getPeers"
    /\ bad \subseteq hisPeers
    /\ LET st == acceptAll(Storage(peers, suspendedPeers, pinging), hisPeers, bad)
       IN  /\ peers' = st.peers
           /\ suspendedPeers' = st.suspended
           /\ pinging' = st.pinging
           /\ disc_wait' = st.pinging \ pinging
    /\ disc_queried' = disc_queried + 1
    /\ disc_pc' = "check"
    /\ UNCHANGED << disc_todo, refresh_pc, cleanLog >>
    /\ UNCHANGED notLife

DiscoverError ==
    /\ disc_pc = "getPeers"
    /\ disc_pc' = "check"
    /\ UNCHANGED << storageVars, disc_todo, disc_queried, disc_wait,
                    refresh_pc, cleanLog >>
    /\ UNCHANGED notLife

\* a loop that asks every peer of the snapshot
askEveryone(ps, queried) == FALSE

\* if (this.hasMinimumPeers() && queriedPeers >= queryAtLeastNPeers) return
enoughDiscovered(ps, queried) == hasMinimumPeers(ps) /\ queried >= queryAtLeastNPeers

DiscoverCheck ==
    /\ disc_pc = "check"
    /\ disc_wait \cap pinging = {}
    /\ disc_wait' = {}
    /\ IF enoughDiscovered(peers, disc_queried)
          THEN /\ disc_pc' = "done"
               /\ UNCHANGED disc_todo
          ELSE DiscoverGetPeers(disc_todo)
    /\ UNCHANGED << storageVars, disc_queried, refresh_pc, cleanLog >>
    /\ UNCHANGED notLife

DiscoverReturn ==
    /\ disc_pc = "done"
    /\ disc_pc' = "idle"
    /\ disc_todo' = {}
    /\ disc_queried' = 0
    /\ UNCHANGED << storageVars, disc_wait, refresh_pc, cleanLog >>
    /\ UNCHANGED notLife

\* refreshPeersAfterFork: cleanPeers(false, true) and resetSuspendedPeers,
\* then, after the await, the ban
RefreshStart(unresponsive, expired) ==
    /\ refresh_pc = "idle"
    /\ unresponsive \subseteq pingable(peers)
    /\ expired \subseteq ipsOf(suspendedPeers)
    /\ LET pass == cleanPeers(peers, unresponsive)
       IN  /\ peers' = pass.peers
           /\ cleanLog' = [pinged |-> pass.pinged, removed |-> pass.removed,
                           outcome |-> pass.outcome]
           /\ IF pass.outcome = "resolved"
                 THEN /\ suspendedPeers' = resetSuspendedPeers(suspendedPeers, expired)
                      /\ refresh_pc' = "reset"
                 ELSE /\ UNCHANGED suspendedPeers
                      /\ refresh_pc' = "rejected"
    /\ UNCHANGED << pinging, discVars >>
    /\ UNCHANGED notLife

\* forkedBlock is state.forkedBlock.ip as read after the await, NoIP when no
\* forked block is recorded
RefreshBan(forkedBlock) ==
    /\ refresh_pc = "reset"
    /\ LET st == IF forkedBlock # NoIP
                    THEN banForkCauser(Storage(peers, suspendedPeers, pinging), forkedBlock)
                    ELSE Storage(peers, suspendedPeers, pinging)
       IN  /\ peers' = st.peers
           /\ suspendedPeers' = st.suspended
    /\ refresh_pc' = "done"
    /\ UNCHANGED << pinging, discVars, cleanLog >>
    /\ UNCHANGED notLife

\* the blockchain records the block that made it fork, or clears the record
ForkRecorded(ip) ==
    /\ stateForkedBlock # ip
    /\ stateForkedBlock' = ip
    /\ UNCHANGED << storageVars, lifeVars, schedVars, healthVars, syncVars, bcVars, netVars,
                    deriveVars, pingVars, seedVars >>

RefreshReturn ==
    /\ refresh_pc \in {"done", "rejected"}
    /\ refresh_pc' = "idle"
    /\ UNCHANGED << storageVars, discVars, cleanLog >>
    /\ UNCHANGED notLife



\* ---- start, updateNetworkStatus and scheduleUpdateNetworkStatus
\* scheduleUpdateNetworkStatus up to its await: the latch, then the delay
scheduleAlways(latch, tm, seconds) ==
    [latch |-> TRUE, timers |-> [tm EXCEPT ![seconds] = @ + 1]]
scheduleUpdateNetworkStatus(latch, tm, seconds) ==
    IF latch THEN [latch |-> latch, timers |-> tm]
    ELSE [latch |-> TRUE, timers |-> [tm EXCEPT ![seconds] = @ + 1]]

armed(tm) == tm[5] + tm[600]

\* an updateNetworkStatus without its guards
unguardedEntry(cfg, networkStart) == "discover"

\* the guards of updateNetworkStatus: where a call goes first
updateNetworkStatusEntry(cfg, networkStart) ==
    IF cfg.testEnv THEN "skipped"
    ELSE IF networkStart THEN "skipped"
    ELSE IF cfg.disableDiscovery THEN "skipped"
    ELSE "discover"

\* slot 1 carries the call start awaits
freeSlot(s) == uns_pc[s] = "idle" /\ (s = 1 => start_pc = "started")

\* app.forceExit: the process ends, and with it its calls, timers and requests
ForceExit ==
    /\ start_pc' = "exited"
    /\ uns_pc' = [s \in Passes |-> "exited"]
    /\ timers' = [d \in Delays |-> 0]
    /\ pinging' = {}
    /\ UNCHANGED << peers, suspendedPeers, nextUpdateNetworkStatusScheduled >>

Start(options, bad) ==
    /\ start_pc = "new"
    /\ config' = options
    /\ IF noPeerList(peersList)
          THEN ForceExit
          ELSE /\ LET st == populateSeedPeers(peersList.list,
                                              Storage(peers, suspendedPeers, pinging), bad)
                  IN  /\ peers' = st.peers
                      /\ suspendedPeers' = st.suspended
                      /\ pinging' = st.pinging
               /\ start_pc' = "seeding"
               /\ UNCHANGED << uns_pc, nextUpdateNetworkStatusScheduled, timers >>
    /\ UNCHANGED lifeVars
    /\ UNCHANGED << nextRunDelaySeconds, uns_error, healthVars, syncVars, bcVars, netVars, deriveVars, pingVars, seedVars, forkVars >>

StartUpdate ==
    /\ start_pc = "seeding"
    /\ pinging = {}
    /\ IF config.skipDiscovery
          THEN /\ start_pc' = "started"
               /\ UNCHANGED uns_pc
          ELSE /\ start_pc' = "updating"
               /\ uns_pc' = [uns_pc EXCEPT ![1] =
                                updateNetworkStatusEntry(config, config.networkStart)]
    /\ UNCHANGED << storageVars, lifeVars, config, nextUpdateNetworkStatusScheduled, timers >>
    /\ UNCHANGED << nextRunDelaySeconds, uns_error, healthVars, syncVars, bcVars, netVars, deriveVars, pingVars, seedVars, forkVars >>

StartDone ==
    /\ start_pc = "updating"
    /\ uns_pc[1] \in {"skipped", "scheduled"}
    /\ start_pc' = "started"
    /\ uns_pc' = [uns_pc EXCEPT ![1] = "idle"]
    /\ nextRunDelaySeconds' = [nextRunDelaySeconds EXCEPT ![1] = 0]
    /\ uns_error' = [uns_error EXCEPT ![1] = "none"]
    /\ UNCHANGED << storageVars, lifeVars, config, nextUpdateNetworkStatusScheduled, timers >>
    /\ UNCHANGED << healthVars, syncVars, bcVars, netVars, deriveVars, pingVars, seedVars, forkVars >>

\* a call by an external caller
UpdateNetworkStatus(s, networkStart) ==
    /\ start_pc # "new"
    /\ freeSlot(s)
    /\ uns_pc' = [uns_pc EXCEPT ![s] = updateNetworkStatusEntry(config, networkStart)]
    /\ UNCHANGED << storageVars, lifeVars, config, start_pc,
                    nextUpdateNetworkStatusScheduled, timers >>
    /\ UNCHANGED << nextRunDelaySeconds, uns_error, healthVars, syncVars, bcVars, netVars, deriveVars, pingVars, seedVars, forkVars >>

\* await discoverPeers(): what the queried peers answered is accepted
PassDiscover(s, hisPeers, bad) ==
    /\ uns_pc[s] = "discover"
    /\ bad \subseteq hisPeers
    /\ LET st == acceptAll(Storage(peers, suspendedPeers, pinging), hisPeers, bad)
       IN  /\ peers' = st.peers
           /\ suspendedPeers' = st.suspended
           /\ pinging' = st.pinging
    /\ uns_pc' = [uns_pc EXCEPT ![s] = "clean"]
    /\ UNCHANGED << lifeVars, config, start_pc, nextUpdateNetworkStatusScheduled, timers >>
    /\ UNCHANGED << nextRunDelaySeconds, uns_error, healthVars, syncVars, bcVars, netVars, deriveVars, pingVars, seedVars, forkVars >>

\* a catch block that lets the error go without a log
swallowed(outcome) == "none"

\* catch (error) { this.logger.error(`Network Status: ${error.message}`) }
caught(outcome) == IF outcome = "resolved" THEN "none" ELSE outcome

\* await cleanPeers(); an error is caught and logged
PassClean(s, unresponsive) ==
    /\ uns_pc[s] = "clean"
    /\ pinging = {}
    /\ unresponsive \subseteq pingable(peers)
    /\ LET pass == cleanPeers(peers, unresponsive)
       IN  /\ peers' = pass.peers
           /\ cleanLog' = [pinged |-> pass.pinged, removed |-> pass.removed,
                           outcome |-> pass.outcome]
           /\ uns_error' = [uns_error EXCEPT ![s] = caught(pass.outcome)]
    /\ uns_pc' = [uns_pc EXCEPT ![s] = "reschedule"]
    /\ UNCHANGED << suspendedPeers, pinging, discVars, refresh_pc, config, start_pc,
                    nextUpdateNetworkStatusScheduled, timers >>
    /\ UNCHANGED << nextRunDelaySeconds, healthVars, syncVars, bcVars, netVars, deriveVars, pingVars, seedVars, forkVars >>

\* nextRunDelaySeconds without the fallback to the seeds
defaultDelay(enough) == 600

\* let nextRunDelaySeconds = 600, and 5 if (!this.hasMinimumPeers())
nextRunDelay(enough) == IF enough THEN 600 ELSE 5

PassReschedule(s, bad) ==
    /\ uns_pc[s] = "reschedule"
    /\ nextRunDelaySeconds' = [nextRunDelaySeconds EXCEPT
                                  ![s] = nextRunDelay(hasMinimumPeers(peers))]
    /\ IF ~hasMinimumPeers(peers) /\ noPeerList(peersList)
          THEN ForceExit
          ELSE IF ~hasMinimumPeers(peers)
          THEN /\ LET st == populateSeedPeers(peersList.list,
                                              Storage(peers, suspendedPeers, pinging), bad)
                  IN  /\ peers' = st.peers
                      /\ suspendedPeers' = st.suspended
                      /\ pinging' = st.pinging
               /\ uns_pc' = [uns_pc EXCEPT ![s] = "seeding"]
               /\ UNCHANGED << nextUpdateNetworkStatusScheduled, timers, start_pc >>
          ELSE /\ bad = {}
               /\ LET r == scheduleUpdateNetworkStatus(nextUpdateNetworkStatusScheduled,
                                                       timers, nextRunDelay(TRUE))
                  IN  /\ nextUpdateNetworkStatusScheduled' = r.latch
                      /\ timers' = r.timers
               /\ uns_pc' = [uns_pc EXCEPT ![s] = "scheduled"]
               /\ UNCHANGED << storageVars, start_pc >>
    /\ UNCHANGED << lifeVars, config, uns_error >>
    /\ UNCHANGED << healthVars, syncVars, bcVars, netVars, deriveVars, pingVars, seedVars, forkVars >>

PassSeeded(s) ==
    /\ uns_pc[s] = "seeding"
    /\ pinging = {}
    /\ LET r == scheduleUpdateNetworkStatus(nextUpdateNetworkStatusScheduled, timers,
                                            nextRunDelaySeconds[s])
       IN  /\ nextUpdateNetworkStatusScheduled' = r.latch
           /\ timers' = r.timers
    /\ uns_pc' = [uns_pc EXCEPT ![s] = "scheduled"]
    /\ UNCHANGED << storageVars, lifeVars, config, start_pc >>
    /\ UNCHANGED << nextRunDelaySeconds, uns_error, healthVars, syncVars, bcVars, netVars, deriveVars, pingVars, seedVars, forkVars >>

PassReturn(s) ==
    /\ uns_pc[s] \in {"skipped", "scheduled"}
    /\ s = 1 => start_pc = "started"
    /\ uns_pc' = [uns_pc EXCEPT ![s] = "idle"]
    /\ nextRunDelaySeconds' = [nextRunDelaySeconds EXCEPT ![s] = 0]
    /\ uns_error' = [uns_error EXCEPT ![s] = "none"]
    /\ UNCHANGED << storageVars, lifeVars, config, start_pc,
                    nextUpdateNetworkStatusScheduled, timers >>
    /\ UNCHANGED << healthVars, syncVars, bcVars, netVars, deriveVars, pingVars, seedVars, forkVars >>

\* the delay of scheduleUpdateNetworkStatus ends
TimerFires(seconds, s) ==
    /\ timers[seconds] > 0
    /\ freeSlot(s)
    /\ timers' = [timers EXCEPT ![seconds] = @ - 1]
    /\ nextUpdateNetworkStatusScheduled' = FALSE
    /\ uns_pc' = [uns_pc EXCEPT ![s] = updateNetworkStatusEntry(config, config.networkStart)]
    /\ UNCHANGED << storageVars, lifeVars, config, start_pc >>
    /\ UNCHANGED << nextRunDelaySeconds, uns_error, healthVars, syncVars, bcVars, netVars, deriveVars, pingVars, seedVars, forkVars >>



\* ---- checkNetworkHealth
Max(S) == CHOOSE x \in S : \A y \in S : y <= x
Min(S) == CHOOSE x \in S : \A y \in S : x <= y

\* the suspended peers that are verified, and [...peers, ...suspendedPeers]
verifiedSuspendedPeers(ss) == {p \in ss : p.verification # NULL}
allPeersOf(ps, ss) == getPeers(ps) \cup verifiedSuspendedPeers(ss)

\* forkedPeers.length / allPeers.length < 0.5
majorityOnOurChain(nForked, nAll) == 2 * nForked < nAll

\* groupBy(allPeers, "verification.highestCommonHeight")
groupedByCommonHeight(all) ==
    [h \in {p.verification.highestCommonHeight : p \in all} |->
        {p \in all : p.verification.highestCommonHeight = h}]
\* groupBy(Object.values(groupedByCommonHeight), "length"): the groups, named
\* by their common height, of each size
groupedByLength(groups) ==
    [n \in {Cardinality(groups[h]) : h \in DOMAIN groups} |->
        {h \in DOMAIN groups : Cardinality(groups[h]) = n}]
\* Object.keys(groupedByLength).sort((a, b) => b - a)[0]
longestOf(byLength) == Max(DOMAIN byLength)
\* longestGroups.sort(highestCommonHeight DESC)[0]
lowestCommonHeightFirst(longestGroups) == Min(longestGroups)
peersMostCommonHeight(longestGroups) == Max(longestGroups)

NoStatus == [outcome |-> "none", forked |-> FALSE, rollback |-> FALSE,
             blocksToRollback |-> 0, lastBlock |-> 0]

\* lines 293 - 334, which run without an await
networkStatus(ps, ss, lastBlock) ==
    LET allPeers == allPeersOf(ps, ss)
        status == [NoStatus EXCEPT !.outcome = "status", !.lastBlock = lastBlock]
    IN  IF allPeers = {} THEN status
        ELSE IF \E p \in allPeers : p.verification = NULL
                THEN [status EXCEPT !.outcome = "TypeError"]
        ELSE LET forkedPeers == {p \in allPeers : p.verification.forked}
             IN  IF majorityOnOurChain(Cardinality(forkedPeers), Cardinality(allPeers))
                    THEN status
                 ELSE LET byLength == groupedByLength(groupedByCommonHeight(allPeers))
                          longestGroups == byLength[longestOf(byLength)]
                          highestCommonHeight == peersMostCommonHeight(longestGroups)
                      IN  [status EXCEPT !.forked = TRUE, !.rollback = TRUE,
                                  !.blocksToRollback = lastBlock - highestCommonHeight]

\* coldStartPeriod.isAfter(now) without the cold start
coldStartOver(active) == FALSE

\* isColdStartActive(): coldStartPeriod.isAfter(now)
isColdStartActive(active) == active

\* the clock passes coldStartPeriod
ColdStartEnds ==
    /\ coldStartActive
    /\ health_pc = "idle"
    /\ state_pc = "idle"
    /\ coldStartActive' = FALSE
    /\ UNCHANGED << storageVars, lifeVars, schedVars, health_pc, healthResult, state_pc >>
    /\ UNCHANGED << syncVars, bcVars, netVars, deriveVars, pingVars, seedVars, forkVars >>

\* the call up to its first await that waits, or to its return
CheckNetworkHealth(lastBlock, expired) ==
    /\ health_pc = "idle"
    /\ expired \subseteq ipsOf(suspendedPeers)
    /\ IF isColdStartActive(coldStartActive)
          THEN /\ expired = {}
               /\ healthResult' = networkStatus(peers, suspendedPeers, lastBlock)
               /\ health_pc' = "returned"
               /\ UNCHANGED << storageVars, cleanLog >>
          ELSE LET pass == cleanPeers(peers, {})
               IN  /\ peers' = pass.peers
                   /\ cleanLog' = [pinged |-> pass.pinged, removed |-> pass.removed,
                                   outcome |-> pass.outcome]
                   /\ UNCHANGED pinging
                   /\ IF pass.outcome = "resolved"
                         THEN /\ suspendedPeers' = resetSuspendedPeers(suspendedPeers, expired)
                              /\ health_pc' = "tail"
                              /\ healthResult' = [NoStatus EXCEPT !.lastBlock = lastBlock]
                         ELSE /\ expired = {}
                              /\ UNCHANGED suspendedPeers
                              /\ health_pc' = "returned"
                              /\ healthResult' = [NoStatus EXCEPT !.outcome = "cleanPeers rejected",
                                                         !.lastBlock = lastBlock]
    /\ UNCHANGED << discVars, refresh_pc, schedVars, coldStartActive, state_pc >>
    /\ UNCHANGED << syncVars, bcVars, netVars, deriveVars, pingVars, seedVars, forkVars >>

HealthTail ==
    /\ health_pc = "tail"
    /\ healthResult' = networkStatus(peers, suspendedPeers, healthResult.lastBlock)
    /\ health_pc' = "returned"
    /\ UNCHANGED << storageVars, lifeVars, schedVars, coldStartActive, state_pc >>
    /\ UNCHANGED << syncVars, bcVars, netVars, deriveVars, pingVars, seedVars, forkVars >>

HealthReturn ==
    /\ health_pc = "returned"
    /\ health_pc' = "idle"
    /\ healthResult' = NoStatus
    /\ UNCHANGED << storageVars, lifeVars, schedVars, coldStartActive, state_pc >>
    /\ UNCHANGED << syncVars, bcVars, netVars, deriveVars, pingVars, seedVars, forkVars >>



\* getNetworkState(): cleanPeers(true, true) unless in cold start, then
\* NetworkState.analyze, which reads the storage
GetNetworkState ==
    /\ state_pc = "idle"
    /\ IF isColdStartActive(coldStartActive)
          THEN /\ state_pc' = "analyzed"
               /\ UNCHANGED << storageVars, cleanLog >>
          ELSE LET pass == cleanPeers(peers, {})
               IN  /\ peers' = pass.peers
                   /\ cleanLog' = [pinged |-> pass.pinged, removed |-> pass.removed,
                                   outcome |-> pass.outcome]
                   /\ state_pc' = IF pass.outcome = "resolved" THEN "analyzed" ELSE "rejected"
                   /\ UNCHANGED << suspendedPeers, pinging >>
    /\ UNCHANGED << discVars, refresh_pc, schedVars, coldStartActive, health_pc, healthResult >>
    /\ UNCHANGED << syncVars, bcVars, netVars, deriveVars, pingVars, seedVars, forkVars >>

GetNetworkStateReturn ==
    /\ state_pc \in {"analyzed", "rejected"}
    /\ state_pc' = "idle"
    /\ UNCHANGED << storageVars, lifeVars, schedVars, coldStartActive, health_pc, healthResult >>
    /\ UNCHANGED << syncVars, bcVars, netVars, deriveVars, pingVars, seedVars, forkVars >>

\* ------------------------------------------------------- syncWithNetwork
\* Peer.isForked(): the peer has been verified and found on another chain
isForked(p) == p.verification.verified /\ p.verification.forked

\* the same selection without the fork test
peersNotSuspended(ps, ss) ==
    {p \in getPeers(ps) : ~hasSuspendedPeer(ss, p.ip)}

peersFiltered(ps, ss) ==
    {p \in getPeers(ps) : ~hasSuspendedPeer(ss, p.ip) /\ ~isForked(p)}

NoDownload == [ip |-> NoIP, forked |-> FALSE, suspended |-> FALSE, active |-> FALSE]

\* communicator.downloadBlocks(peer, fromBlockHeight) as it is issued: whom it
\* goes to and what that peer is at this moment
downloadBlocks(ps, ss, p) ==
    [ip |-> p.ip, forked |-> isForked(p),
     suspended |-> hasSuspendedPeer(ss, p.ip), active |-> hasPeer(ps, p.ip)]

\* the catch block: the call calls itself, one frame deeper, until the engine
\* has no frame left and raises a RangeError, which rejects the call
catchAndRetry(error, depth) ==
    IF depth < MaxSyncDepth
    THEN [pc |-> "try", result |-> "none", depth |-> depth + 1]
    ELSE [pc |-> "rejected", result |-> "RangeError", depth |-> depth]

SyncWithNetwork ==
    /\ sync_pc = "idle"
    /\ sync_pc' = "try"
    /\ sync_depth' = 0
    /\ sync_error' = "none"
    /\ sync_logged' = 0
    /\ sync_download' = NoDownload
    /\ sync_result' = "none"
    /\ UNCHANGED << storageVars, lifeVars, schedVars, healthVars, bcVars, netVars, deriveVars, pingVars, seedVars, forkVars >>

SyncTry ==
    /\ sync_pc = "try"
    /\ LET viable == peersFiltered(peers, suspendedPeers)
       IN  IF viable = {}
           THEN /\ sync_error' = "NoViablePeers"
                /\ sync_pc' = "catch"
                /\ UNCHANGED sync_download
           ELSE /\ \E p \in viable :
                      sync_download' = downloadBlocks(peers, suspendedPeers, p)
                /\ sync_pc' = "downloading"
                /\ UNCHANGED sync_error
    /\ UNCHANGED << sync_depth, sync_logged, sync_result >>
    /\ UNCHANGED << storageVars, lifeVars, schedVars, healthVars, bcVars, netVars, deriveVars, pingVars, seedVars, forkVars >>

SyncCatch ==
    /\ sync_pc = "catch"
    /\ sync_logged' = sync_logged + 1
    /\ LET c == catchAndRetry(sync_error, sync_depth)
       IN  /\ sync_pc' = c.pc
           /\ sync_result' = c.result
           /\ sync_depth' = c.depth
    /\ UNCHANGED << sync_error, sync_download >>
    /\ UNCHANGED << storageVars, lifeVars, schedVars, healthVars, bcVars, netVars, deriveVars, pingVars, seedVars, forkVars >>

\* the download settles after the function has returned its promise: a
\* rejection is the caller's, the catch block is no longer in force
SyncDownloaded(ok) ==
    /\ sync_pc = "downloading"
    /\ sync_pc' = IF ok THEN "returned" ELSE "rejected"
    /\ sync_result' = IF ok THEN "blocks" ELSE "DownloadError"
    /\ UNCHANGED << sync_depth, sync_error, sync_logged, sync_download >>
    /\ UNCHANGED << storageVars, lifeVars, schedVars, healthVars, bcVars, netVars, deriveVars, pingVars, seedVars, forkVars >>

SyncReturn ==
    /\ sync_pc \in {"returned", "rejected"}
    /\ sync_pc' = "idle"
    /\ UNCHANGED << sync_depth, sync_error, sync_logged, sync_download, sync_result >>
    /\ UNCHANGED << storageVars, lifeVars, schedVars, healthVars, bcVars, netVars, deriveVars, pingVars, seedVars, forkVars >>

\* --------------------------------- broadcastBlock, broadcastTransactions
maxHop == 4
maxPeersBroadcast == 1
BlockIds == {1, 2}
NoBlock == 0
\* blockchain.getBlockPing(): nothing, or the block last heard of, how often
\* it was heard (count) and for how long (diff = last - first, in ms)
NoPing == [id |-> NoBlock, count |-> 0, diff |-> 0]
BlockPings == [id : BlockIds, count : 0..maxHop, diff : {0, 500}]

\* a probability that is never used up
certain(blockPing) == maxHop

\* proba = (maxHop - count) / maxHop, as its numerator
proba(blockPing) == maxHop - blockPing.count

\* peers.filter(p => Math.random() < proba): Math.random() is in [0, 1)
keptByChance(ps, num) ==
    IF num <= 0 THEN {{}}
    ELSE IF num >= maxHop THEN {ps}
    ELSE SUBSET ps

\* what a call is issued to, and what that peer is at this moment
postTo(ps, ss, p) ==
    [ip |-> p.ip, active |-> hasPeer(ps, p.ip), suspended |-> hasSuspendedPeer(ss, p.ip)]

\* await Promise.all(calls), when one call settles: the first rejection
\* rejects it, the last fulfilment resolves it
promiseAll(pc, pending, ok) ==
    IF pc # "posting" THEN pc
    ELSE IF ~ok THEN "rejected"
    ELSE IF pending = {} THEN "resolved"
    ELSE pc

\* peers.map(peer => this.communicator.postBlock(peer, block.toJson()))
IssuePostBlock(recipients) ==
    /\ bb_peers' = recipients
    /\ bb_posts' = {postTo(peers, suspendedPeers, p) : p \in recipients}
    /\ bb_pending' = ipsOf(recipients)
    /\ bb_pc' = IF recipients = {} THEN "resolved" ELSE "posting"
    /\ bb_result' = IF recipients = {} THEN "done" ELSE "none"

BroadcastBlock(ready, block, blockPing) ==
    /\ bb_pc = "idle"
    /\ bb_block' = block
    /\ bb_ping' = IF ready THEN blockPing ELSE NoPing
    /\ IF ~ready
       THEN /\ bb_pc' = "resolved"
            /\ bb_result' = "skipped"
            /\ bb_peers' = {}
            /\ bb_posts' = {}
            /\ bb_pending' = {}
       ELSE IF blockPing # NoPing /\ blockPing.id = block
            THEN IF blockPing.diff < 500 /\ proba(blockPing) > 0
                 THEN /\ bb_pc' = "delay"
                      /\ bb_peers' = getPeers(peers)
                      /\ bb_posts' = {}
                      /\ bb_pending' = {}
                      /\ bb_result' = "none"
                 ELSE \E kept \in keptByChance(getPeers(peers), proba(blockPing)) :
                         IssuePostBlock(kept)
            ELSE IssuePostBlock(getPeers(peers))
    /\ UNCHANGED << storageVars, lifeVars, schedVars, healthVars, syncVars, btVars, netVars, deriveVars, pingVars, seedVars, forkVars >>

\* a second look at the ping that never finds a new block
sameBlockStill(blockPing, block) == FALSE

\* if (blockPing.block.id !== block.data.id) return
gotNewBlock(blockPing, block) == blockPing.id # block

\* the delay is over: the ping is read again
BroadcastBlockDelayed(blockPing) ==
    /\ bb_pc = "delay"
    /\ IF gotNewBlock(blockPing, bb_block)
       THEN /\ bb_pc' = "resolved"
            /\ bb_result' = "abandoned"
            /\ UNCHANGED << bb_peers, bb_posts, bb_pending >>
       ELSE \E kept \in keptByChance(bb_peers, proba(blockPing)) :
               IssuePostBlock(kept)
    /\ UNCHANGED bb_block
    /\ bb_ping' = blockPing
    /\ UNCHANGED << storageVars, lifeVars, schedVars, healthVars, syncVars, btVars, netVars, deriveVars, pingVars, seedVars, forkVars >>

PostBlockSettles(ip, ok) ==
    /\ ip \in bb_pending
    /\ bb_pending' = bb_pending \ {ip}
    /\ bb_pc' = promiseAll(bb_pc, bb_pending', ok)
    /\ bb_result' = IF bb_pc' = bb_pc THEN bb_result
                    ELSE IF bb_pc' = "rejected" THEN "PostError" ELSE "done"
    /\ UNCHANGED << bb_block, bb_ping, bb_peers, bb_posts >>
    /\ UNCHANGED << storageVars, lifeVars, schedVars, healthVars, syncVars, btVars, netVars, deriveVars, pingVars, seedVars, forkVars >>

BroadcastBlockReturn ==
    /\ bb_pc \in {"resolved", "rejected"}
    /\ bb_pending = {}
    /\ bb_pc' = "idle"
    /\ bb_block' = NoBlock
    /\ bb_ping' = NoPing
    /\ bb_peers' = {}
    /\ bb_posts' = {}
    /\ bb_result' = "none"
    /\ UNCHANGED bb_pending
    /\ UNCHANGED << storageVars, lifeVars, schedVars, healthVars, syncVars, btVars, netVars, deriveVars, pingVars, seedVars, forkVars >>

\* shuffle(peers) without the take
shuffled(ps, n) == {ps}

\* take(shuffle(peers), n): any n of them, all of them when there are fewer
takeShuffled(ps, n) ==
    {chosen \in SUBSET ps : Cardinality(chosen) = Min({n, Cardinality(ps)})}

BroadcastTransactions ==
    /\ bt_pc = "idle"
    /\ bt_n' = Cardinality(getPeers(peers))
    /\ \E recipients \in takeShuffled(getPeers(peers), maxPeersBroadcast) :
          /\ bt_posts' = {postTo(peers, suspendedPeers, p) : p \in recipients}
          /\ bt_pending' = ipsOf(recipients)
          /\ bt_pc' = IF recipients = {} THEN "resolved" ELSE "posting"
          /\ bt_result' = IF recipients = {} THEN "done" ELSE "none"
    /\ UNCHANGED << storageVars, lifeVars, schedVars, healthVars, syncVars, bbVars, netVars, deriveVars, pingVars, seedVars, forkVars >>

PostTransactionsSettles(ip, ok) ==
    /\ ip \in bt_pending
    /\ bt_pending' = bt_pending \ {ip}
    /\ bt_pc' = promiseAll(bt_pc, bt_pending', ok)
    /\ bt_result' = IF bt_pc' = bt_pc THEN bt_result
                    ELSE IF bt_pc' = "rejected" THEN "PostError" ELSE "done"
    /\ UNCHANGED << bt_n, bt_posts >>
    /\ UNCHANGED << storageVars, lifeVars, schedVars, healthVars, syncVars, bbVars, netVars, deriveVars, pingVars, seedVars, forkVars >>

BroadcastTransactionsReturn ==
    /\ bt_pc \in {"resolved", "rejected"}
    /\ bt_pending = {}
    /\ bt_pc' = "idle"
    /\ bt_n' = 0
    /\ bt_posts' = {}
    /\ bt_result' = "none"
    /\ UNCHANGED bt_pending
    /\ UNCHANGED << storageVars, lifeVars, schedVars, healthVars, syncVars, bbVars, netVars, deriveVars, pingVars, seedVars, forkVars >>

\* ------------------------------- getNetworkHeight, getPBFTForgingStatus
\* peer.state: height (0 when it is not set), currentSlot, forgingAllowed
Slots == {1, 2}
PeerState == [height : 0..MaxHeight, currentSlot : Slots, forgingAllowed : BOOLEAN]
PeerStateLists == UNION {[1..n -> PeerState] : n \in 0..MaxStatePeers}

\* .filter(peer => peer.state.height).map(peer => peer.state.height)
RECURSIVE heightsOf(_)
heightsOf(states) ==
    IF states = << >> THEN << >>
    ELSE IF Head(states).height # 0
         THEN << Head(states).height >> \o heightsOf(Tail(states))
         ELSE heightsOf(Tail(states))

\* .sort((a, b) => a - b)
RECURSIVE insertAscending(_, _)
insertAscending(sorted, h) ==
    IF sorted = << >> THEN << h >>
    ELSE IF h < Head(sorted) THEN << h >> \o sorted
         ELSE << Head(sorted) >> \o insertAscending(Tail(sorted), h)

RECURSIVE sortAscending(_)
sortAscending(hs) ==
    IF hs = << >> THEN << >>
    ELSE insertAscending(sortAscending(Tail(hs)), Head(hs))

\* the index of the lower of the two middle elements
lowerMiddle(n) == (n - 1) \div 2

\* Math.floor(medians.length / 2), an index that counts from 0
medianIndex(n) == n \div 2

\* medians[Math.floor(medians.length / 2)] || 0
getNetworkHeight(states) ==
    LET medians == sortAscending(heightsOf(states))
    IN  IF medians = << >> THEN 0 ELSE medians[medianIndex(Len(medians)) + 1]

\* the test for allowedToForge++ without the height
forgingAllowedOnly(state, height) == state.forgingAllowed

\* peer.state.forgingAllowed && peer.state.height >= height
allowedToForge(state, height) == state.forgingAllowed /\ state.height >= height

\* the loop over the peers: [allowedToForge, syncedPeers]
RECURSIVE countForgers(_, _, _)
countForgers(states, slot, height) ==
    IF states = << >> THEN [allowedToForge |-> 0, syncedPeers |-> 0]
    ELSE LET rest == countForgers(Tail(states), slot, height)
             state == Head(states)
         IN  IF state.currentSlot = slot
             THEN [allowedToForge |-> rest.allowedToForge +
                                      (IF allowedToForge(state, height) THEN 1 ELSE 0),
                   syncedPeers |-> rest.syncedPeers + 1]
             ELSE rest

\* allowedToForge / syncedPeers as a fraction; 0 / 0 is NaN, which gives 0
Zero == [num |-> 0, den |-> 1]
getPBFTForgingStatus(states, slot) ==
    LET n == countForgers(states, slot, getNetworkHeight(states))
    IN  IF n.syncedPeers = 0 THEN Zero
        ELSE [num |-> n.allowedToForge, den |-> n.syncedPeers]

GetNetworkHeight ==
    /\ derive_pc = "idle"
    /\ derive_pc' = "height"
    /\ networkHeight' = getNetworkHeight(peerStates)
    /\ UNCHANGED << peerStates, slotNumber, pbft >>
    /\ UNCHANGED << storageVars, lifeVars, schedVars, healthVars, syncVars, bcVars, netVars, pingVars, seedVars, forkVars >>

GetPBFTForgingStatus(slot) ==
    /\ derive_pc = "idle"
    /\ derive_pc' = "pbft"
    /\ slotNumber' = slot
    /\ networkHeight' = getNetworkHeight(peerStates)
    /\ pbft' = getPBFTForgingStatus(peerStates, slot)
    /\ UNCHANGED peerStates
    /\ UNCHANGED << storageVars, lifeVars, schedVars, healthVars, syncVars, bcVars, netVars, pingVars, seedVars, forkVars >>

DeriveReturn ==
    /\ derive_pc # "idle"
    /\ derive_pc' = "idle"
    /\ slotNumber' = 0
    /\ networkHeight' = 0
    /\ pbft' = Zero
    /\ UNCHANGED peerStates
    /\ UNCHANGED << storageVars, lifeVars, schedVars, healthVars, syncVars, bcVars, netVars, pingVars, seedVars, forkVars >>

\* ------------------------------------------------- PeerCommunicator.ping
\* how long a ping stays fresh, in ticks of the clock
freshness == 2
Statuses == 1..MaxHeight
NoCall == [pc |-> "idle", forcePing |-> FALSE, at |-> 0, last |-> 0, cached |-> 0,
           remote |-> FALSE, result |-> 0]

\* a recentlyPinged that takes every ping for stale
neverRecentlyPinged(last, t) == FALSE

\* recentlyPinged(peer): lastPinged is set and within the freshness window
recentlyPinged(last, t) == last # 0 /\ t - last < freshness

\* ping up to its remote call: the cached status, or getStatus is issued
Ping(forcePing) ==
    /\ pingCall.pc = "idle"
    /\ LET call == [NoCall EXCEPT !.forcePing = forcePing, !.at = now,
                                   !.last = lastPinged, !.cached = peerStatus]
       IN  IF ~forcePing /\ recentlyPinged(lastPinged, now)
           THEN pingCall' = [call EXCEPT !.pc = "returned", !.result = peerStatus]
           ELSE pingCall' = [call EXCEPT !.pc = "getStatus", !.remote = TRUE]
    /\ UNCHANGED << now, lastPinged, peerStatus >>
    /\ UNCHANGED << storageVars, lifeVars, schedVars, healthVars, syncVars, bcVars, netVars,
                    deriveVars, seedVars, forkVars >>

\* the remote answers: peer.state and peer.lastPinged are updated
PingReplied(status) ==
    /\ pingCall.pc = "getStatus"
    /\ peerStatus' = status
    /\ lastPinged' = now
    /\ pingCall' = [pingCall EXCEPT !.pc = "returned", !.result = status]
    /\ UNCHANGED now
    /\ UNCHANGED << storageVars, lifeVars, schedVars, healthVars, syncVars, bcVars, netVars,
                    deriveVars, seedVars, forkVars >>

\* timeout or transport error
PingUnresponsive ==
    /\ pingCall.pc = "getStatus"
    /\ pingCall' = [pingCall EXCEPT !.pc = "failed"]
    /\ UNCHANGED << now, lastPinged, peerStatus >>
    /\ UNCHANGED << storageVars, lifeVars, schedVars, healthVars, syncVars, bcVars, netVars,
                    deriveVars, seedVars, forkVars >>

PingReturn ==
    /\ pingCall.pc \in {"returned", "failed"}
    /\ pingCall' = NoCall
    /\ UNCHANGED << now, lastPinged, peerStatus >>
    /\ UNCHANGED << storageVars, lifeVars, schedVars, healthVars, syncVars, bcVars, netVars,
                    deriveVars, seedVars, forkVars >>

Tick ==
    /\ now < MaxClock
    /\ now' = now + 1
    /\ UNCHANGED << lastPinged, peerStatus, pingCall >>
    /\ UNCHANGED << storageVars, lifeVars, schedVars, healthVars, syncVars, bcVars, netVars,
                    deriveVars, seedVars, forkVars >>

vars == << storageVars, lifeVars, schedVars, healthVars, syncVars, bcVars, netVars,
          deriveVars, pingVars, seedVars, forkVars >>

InitStorage ==
    /\ peers = {}
    /\ suspendedPeers = {}
    /\ pinging = {}

InitMonitor ==
    /\ disc_pc = "idle"
    /\ disc_todo = {}
    /\ disc_queried = 0
    /\ disc_wait = {}
    /\ refresh_pc = "idle"
    /\ cleanLog = NoClean
    /\ config = NoOptions
    /\ start_pc = "new"
    /\ uns_pc = [s \in Passes |-> "idle"]
    /\ nextUpdateNetworkStatusScheduled = FALSE
    /\ timers = [d \in Delays |-> 0]
    /\ nextRunDelaySeconds = [s \in Passes |-> 0]
    /\ uns_error = [s \in Passes |-> "none"]
    /\ coldStartActive = TRUE
    /\ health_pc = "idle"
    /\ healthResult = NoStatus
    /\ state_pc = "idle"
    /\ sync_pc = "idle"
    /\ sync_depth = 0
    /\ sync_error = "none"
    /\ sync_logged = 0
    /\ sync_download = NoDownload
    /\ sync_result = "none"
    /\ bb_pc = "idle"
    /\ bb_block = NoBlock
    /\ bb_ping = NoPing
    /\ bb_peers = {}
    /\ bb_posts = {}
    /\ bb_pending = {}
    /\ bb_result = "none"
    /\ bt_pc = "idle"
    /\ bt_n = 0
    /\ bt_posts = {}
    /\ bt_pending = {}
    /\ bt_result = "none"
    /\ net_down = {}
    /\ derive_pc = "idle"
    /\ slotNumber = 0
    /\ networkHeight = 0
    /\ pbft = Zero
    /\ now = 1
    /\ lastPinged = 0
    /\ peerStatus = 0
    /\ pingCall = NoCall
    /\ stateForkedBlock = NoIP

Init == InitStorage /\ InitMonitor /\ peerStates = << >> /\ peersList = Configured(peerList)

Processor ==
    \/ \E ip \in IPs, valid \in BOOLEAN : ValidateAndAcceptPeer(ip, 4001, valid)
    \/ \E ip \in IPs : PingOk(ip, OnChain)
    \/ \E ip \in IPs : PingFail(ip)
    \/ \E ip \in IPs : Suspend(ip)
    \/ \E expired \in SUBSET IPs : ResetSuspendedPeers(expired)

Next ==
    \/ Processor
    \/ \E bad \in SUBSET ipsOf(Range(seedPeers)) : PopulateSeedPeers(bad)
    \/ \E u \in SUBSET IPs : CleanPeers(u)
    \/ DiscoverStart
    \/ \E hisPeers \in SUBSET IPs, bad \in SUBSET IPs : DiscoverReply(hisPeers, bad)
    \/ DiscoverError
    \/ DiscoverCheck
    \/ DiscoverReturn
    \/ \E u \in SUBSET IPs, expired \in SUBSET IPs : RefreshStart(u, expired)
    \/ \E forkedBlock \in IPs \cup {NoIP} : RefreshBan(forkedBlock)
    \/ RefreshReturn

Spec == Init /\ [][Next]_vars

\* refreshPeersAfterFork with the forked block the state holds, while peers
\* come, are verified, fail and are suspended
NextFork ==
    \/ Processor
    \/ \E ip \in IPs \cup {NoIP} : ForkRecorded(ip)
    \/ \E u \in SUBSET IPs, expired \in SUBSET IPs : RefreshStart(u, expired)
    \/ RefreshBan(stateForkedBlock)
    \/ RefreshReturn

SpecFork == Init /\ [][NextFork]_vars

\* the discovery scheduler: start, the passes and the timer
NextSched ==
    \/ \E options \in Options, bad \in SUBSET ipsOf(Range(seedPeers)) : Start(options, bad)
    \/ StartUpdate
    \/ StartDone
    \/ \E s \in Passes, networkStart \in BOOLEAN : UpdateNetworkStatus(s, networkStart)
    \/ \E s \in Passes, hisPeers \in SUBSET IPs, bad \in SUBSET IPs : PassDiscover(s, hisPeers, bad)
    \/ \E s \in Passes : PassClean(s, {})
    \/ \E s \in Passes, bad \in SUBSET ipsOf(Range(seedPeers)) : PassReschedule(s, bad)
    \/ \E s \in Passes : PassSeeded(s)
    \/ \E s \in Passes : PassReturn(s)
    \/ \E seconds \in Delays, s \in Passes : TimerFires(seconds, s)
    \/ \E ip \in IPs : PingOk(ip, OnChain)
    \/ \E ip \in IPs : PingFail(ip)

SpecSched == Init /\ [][NextSched]_vars

\* the same scheduler with the event loop's fairness: a continuation that is
\* ready again and again is run, a delay that has elapsed fires, a request
\* in flight settles; start and the callers from outside are under no duty
PassStep(s) ==
    \/ \E hisPeers \in SUBSET IPs, bad \in SUBSET IPs : PassDiscover(s, hisPeers, bad)
    \/ PassClean(s, {})
    \/ \E bad \in SUBSET ipsOf(Range(seedPeers)) : PassReschedule(s, bad)
    \/ PassSeeded(s)
    \/ PassReturn(s)
DelayElapses == \E seconds \in Delays, s \in Passes : TimerFires(seconds, s)
PingSettles == \E ip \in IPs : PingOk(ip, OnChain) \/ PingFail(ip)
FairSched ==
    /\ SF_vars(StartUpdate)
    /\ SF_vars(StartDone)
    /\ \A s \in Passes : SF_vars(PassStep(s))
    /\ SF_vars(DelayElapses)
    /\ WF_vars(PingSettles)
SpecSchedFair == Init /\ [][NextSched]_vars /\ FairSched

\* start over what peers.list can hold: nothing, an empty list, the seeds
PeersLists == {NotConfigured, Configured(<< >>), Configured(peerList)}
InitSeeds == InitStorage /\ InitMonitor /\ peerStates = << >> /\ peersList \in PeersLists
SpecSeeds == InitSeeds /\ [][NextSched]_vars

\* discoverPeers over a storage of up to MaxSnapshot peers, while peers answer
\* or fail, announce a newcomer, and are suspended by the rest of the node.
\* A getPeers request settles (the communicator's timeout), the pings of the
\* announced peers settle, and the loop's continuation then runs.
MaxSnapshot == 5
DiscIPs == {10 + i : i \in 1..MaxSnapshot}
Newcomer == 10 + MaxSnapshot + 1
InitDiscover ==
    /\ \E known \in SUBSET DiscIPs : peers = {Peer(ip, 4001) : ip \in known}
    /\ suspendedPeers = {}
    /\ pinging = {}
    /\ InitMonitor
    /\ peerStates = << >>
    /\ peersList = Configured(peerList)

GetPeersSettles ==
    \/ \E hisPeers \in SUBSET {Newcomer}, bad \in SUBSET {Newcomer} :
          DiscoverReply(hisPeers, bad)
    \/ DiscoverError
NewcomerPingSettles == PingOk(Newcomer, OnChain) \/ PingFail(Newcomer)

NextDiscover ==
    \/ DiscoverStart
    \/ GetPeersSettles
    \/ DiscoverCheck
    \/ DiscoverReturn
    \/ NewcomerPingSettles
    \/ \E ip \in DiscIPs : Suspend(ip)

SpecDiscover ==
    /\ InitDiscover
    /\ [][NextDiscover]_vars
    /\ WF_vars(GetPeersSettles)
    /\ WF_vars(NewcomerPingSettles)
    /\ WF_vars(DiscoverCheck)

\* checkNetworkHealth over the storages the node can be in: each IP is absent,
\* active or suspended, verified or not
HealthIPs == {10 + i : i \in 1..(NumIPs + 1)}
LastBlocks == MaxHeight..(MaxHeight + 1)
InitHealth ==
    /\ \E where \in [HealthIPs -> {"absent", "active", "suspended"}],
          v \in [HealthIPs -> Verifications] :
          /\ peers = {[Peer(ip, 4001) EXCEPT !.verification = v[ip]] :
                         ip \in {i \in HealthIPs : where[i] = "active"}}
          /\ suspendedPeers = {[Peer(ip, 4001) EXCEPT !.verification = v[ip]] :
                         ip \in {i \in HealthIPs : where[i] = "suspended"}}
    /\ pinging = {}
    /\ InitMonitor
    /\ peerStates = << >>
    /\ peersList = Configured(peerList)

NextHealth ==
    \/ ColdStartEnds
    \/ \E lastBlock \in LastBlocks, expired \in SUBSET HealthIPs :
          CheckNetworkHealth(lastBlock, expired)
    \/ HealthTail
    \/ HealthReturn
    \/ GetNetworkState
    \/ GetNetworkStateReturn

SpecHealth == InitHealth /\ [][NextHealth]_vars

\* syncWithNetwork while peers come, are verified, go and come back
OtherChain == [verified |-> TRUE, forked |-> TRUE, highestCommonHeight |-> 1]
NextSync ==
    \/ \E ip \in IPs, valid \in BOOLEAN : ValidateAndAcceptPeer(ip, 4001, valid)
    \/ \E ip \in IPs, v \in {OnChain, OtherChain} : PingOk(ip, v)
    \/ \E ip \in IPs : PingFail(ip)
    \/ \E ip \in IPs : Suspend(ip)
    \/ \E expired \in SUBSET IPs : ResetSuspendedPeers(expired)
    \/ SyncWithNetwork
    \/ SyncTry
    \/ SyncCatch
    \/ \E ok \in BOOLEAN : SyncDownloaded(ok)
    \/ SyncReturn

SpecSync == Init /\ [][NextSync]_vars

\* the broadcasts while peers come, go and come back; the blockchain layer
\* asks for one broadcast at a time
NextBroadcast ==
    \/ \E ip \in IPs : ValidateAndAcceptPeer(ip, 4001, TRUE)
    \/ \E ip \in IPs : PingFail(ip)
    \/ \E ip \in IPs : Suspend(ip)
    \/ \E expired \in SUBSET IPs : ResetSuspendedPeers(expired)
    \/ \E ready \in BOOLEAN, block \in BlockIds, blockPing \in BlockPings \cup {NoPing} :
          bt_pc = "idle" /\ BroadcastBlock(ready, block, blockPing)
    \/ \E blockPing \in BlockPings : BroadcastBlockDelayed(blockPing)
    \/ \E ip \in IPs, ok \in BOOLEAN : PostBlockSettles(ip, ok)
    \/ BroadcastBlockReturn
    \/ bb_pc = "idle" /\ BroadcastTransactions
    \/ \E ip \in IPs, ok \in BOOLEAN : PostTransactionsSettles(ip, ok)
    \/ BroadcastTransactionsReturn

SpecBroadcast == Init /\ [][NextBroadcast]_vars

\* cleanPeers over the storages the node can be in, while peers stop and
\* start answering
NetChanges(ip) ==
    /\ net_down' = IF ip \in net_down THEN net_down \ {ip} ELSE net_down \cup {ip}
    /\ UNCHANGED << storageVars, lifeVars, schedVars, healthVars, syncVars, bcVars, deriveVars, pingVars, seedVars, forkVars >>

NextClean ==
    \/ CleanPeers(pingable(peers) \cap net_down)
    \/ \E ip \in HealthIPs : NetChanges(ip)
    \/ \E ip \in HealthIPs : ValidateAndAcceptPeer(ip, 4001, TRUE)
    \/ \E ip \in HealthIPs : PingOk(ip, OnChain)

SpecClean == InitHealth /\ [][NextClean]_vars

\* the derivations over the states the active peers can report
InitDerive ==
    /\ InitStorage
    /\ InitMonitor
    /\ peerStates \in PeerStateLists
    /\ peersList = Configured(peerList)

NextDerive ==
    \/ GetNetworkHeight
    \/ \E slot \in Slots : GetPBFTForgingStatus(slot)
    \/ DeriveReturn

SpecDerive == InitDerive /\ [][NextDerive]_vars

\* the pings of one peer as time passes
NextPing ==
    \/ \E forcePing \in BOOLEAN : Ping(forcePing)
    \/ \E status \in Statuses : PingReplied(status)
    \/ PingUnresponsive
    \/ PingReturn
    \/ Tick

SpecPing == Init /\ [][NextPing]_vars

\* ================================================================= claims
\* C1: in every reachable state no IP is both in the active peer set and in
\* the suspended set, and each IP has at most one active Peer record.
C1_ActiveXorSuspended ==
    /\ ipsOf(peers) \cap ipsOf(suspendedPeers) = {}
    /\ \A p, q \in peers : p.ip = q.ip => p = q

\* a peer that was active and pinged sits in the suspended set while another
\* IP is active, after the ban of refreshPeersAfterFork
C1_Witness ==
    /\ refresh_pc = "done"
    /\ peers # {}
    /\ \E s \in suspendedPeers : s.verification # NULL

\* C2: at most one scheduleUpdateNetworkStatus delay is pending at any time,
\* and nextUpdateNetworkStatusScheduled is true exactly while one is pending
\* (set when the delay starts, cleared when it ends).
C2_SingleTimer ==
    /\ armed(timers) <= 1
    /\ nextUpdateNetworkStatusScheduled <=> (armed(timers) = 1)

\* two passes have reached scheduleUpdateNetworkStatus and one delay is pending
C2_Witness ==
    /\ \E s, t \in Passes : s # t /\ uns_pc[s] = "scheduled" /\ uns_pc[t] = "scheduled"
    /\ nextUpdateNetworkStatusScheduled
    /\ armed(timers) = 1

\* ---- checkNetworkHealth, as the claims describe it
\* the considered peers: the active peers and the verified suspended peers
Considered == peers \cup {p \in suspendedPeers : p.verification # NULL}
ForkedOf(all) == {p \in all : p.verification # NULL /\ p.verification.forked}
\* the call went past cleanPeers and has returned or thrown
HealthAnswered == health_pc = "returned" /\ healthResult.outcome # "cleanPeers rejected"

\* C3: checkNetworkHealth returns {forked: false} when no peer is considered
\* or when less than half of the considered peers are forked, and
\* forked: true in every other case.
C3_ForkedFromHalf ==
    HealthAnswered =>
        /\ healthResult.outcome = "status"
        /\ healthResult.forked <=>
              ~(Considered = {}
                \/ 2 * Cardinality(ForkedOf(Considered)) < Cardinality(Considered))

\* C4: when forked: true is returned, blocksToRollback is lastBlock.height
\* minus the common height shared by the most considered peers, the greatest
\* such height when several groups have that size.
CountAt(all, h) == Cardinality({p \in all : p.verification.highestCommonHeight = h})
C4_RollbackToMostCommonHeight ==
    (HealthAnswered /\ healthResult.outcome = "status" /\ healthResult.forked) =>
        \E h \in {p.verification.highestCommonHeight : p \in Considered} :
            /\ \A g \in {p.verification.highestCommonHeight : p \in Considered} :
                  \/ CountAt(Considered, g) < CountAt(Considered, h)
                  \/ CountAt(Considered, g) = CountAt(Considered, h) /\ g <= h
            /\ healthResult.rollback
            /\ healthResult.blocksToRollback = healthResult.lastBlock - h

\* forked: true was returned where two groups of different common heights
\* have the same, largest, size
C4_Witness ==
    /\ HealthAnswered
    /\ healthResult.forked
    /\ \E p, q \in Considered :
          /\ p.verification.highestCommonHeight < q.verification.highestCommonHeight
          /\ CountAt(Considered, p.verification.highestCommonHeight)
               = CountAt(Considered, q.verification.highestCommonHeight)
          /\ \A r \in Considered :
                CountAt(Considered, r.verification.highestCommonHeight)
                  <= CountAt(Considered, p.verification.highestCommonHeight)
          /\ healthResult.blocksToRollback
               = healthResult.lastBlock - q.verification.highestCommonHeight

\* C5: a peer whose verification is null, active or suspended, is left out of
\* the counts and of the grouping, and a NetworkStatus computed over the
\* verified peers is still returned.
C5_UnverifiedExcluded ==
    HealthAnswered =>
        healthResult = networkStatus({p \in peers : p.verification # NULL},
                                     {p \in suspendedPeers : p.verification # NULL},
                                     healthResult.lastBlock)

\* C6: every downloadBlocks call of syncWithNetwork, the first and each one
\* after a retry, goes to a peer that at that moment is active, is not
\* suspended and is not forked.
C6_DownloadFromViablePeer ==
    sync_download # NoDownload =>
        /\ sync_download.active
        /\ ~sync_download.suspended
        /\ ~sync_download.forked

\* a download was issued while a forked peer was among the active ones
C6_Witness ==
    /\ sync_pc = "downloading"
    /\ sync_download # NoDownload
    /\ \E p \in peers : isForked(p) /\ p.ip # sync_download.ip

\* C7: once a selection has found no viable peer, the call is over and its
\* caller holds the error "all either banned or on a different chain":
\* syncWithNetwork itself does not go on to retry.
C7_NoViablePeersSurfaced ==
    (sync_error = "NoViablePeers" /\ sync_pc # "catch") =>
        /\ sync_pc \in {"rejected", "idle"}
        /\ sync_result = "NoViablePeers"

\* C8: every postBlock call of broadcastBlock goes to a peer that, when the
\* recipients are picked and the calls issued, is in the active set and whose
\* IP is not in the suspended set.
C8_NoPostBlockToSuspended ==
    \A call \in bb_posts : call.active /\ ~call.suspended

\* C9: a postBlock or postTransactions call that fails does not make the
\* broadcast fail towards its caller, and every selected peer has its call
\* issued all the same.
C9_PostErrorsIgnored ==
    /\ bb_result # "PostError"
    /\ bt_result # "PostError"
    /\ bb_pc \in {"posting", "rejected"} => {call.ip : call \in bb_posts} = ipsOf(bb_peers)

C11_UnresponsiveRemoved ==
    [][CleanPeers(pingable(peers) \cap net_down) =>
          \A ip \in ipsOf(peers) \cap net_down : ~hasPeer(peers', ip)]_vars

C13_ColdStartSuppressesCleaning ==
    [][/\ coldStartActive' => coldStartActive
       /\ (coldStartActive /\ (health_pc' # health_pc \/ state_pc' # state_pc)) =>
             /\ peers' = peers
             /\ suspendedPeers' = suspendedPeers
             /\ cleanLog' = cleanLog]_vars

\* both have answered in the cold start, with peers stored and suspended
C13_Witness ==
    /\ coldStartActive
    /\ state_pc = "analyzed"
    /\ health_pc = "returned"
    /\ peers # {}
    /\ suspendedPeers # {}
    /\ cleanLog = NoClean

\* C14: a pass that reaches the end of its body and has too few peers runs
\* populateSeedPeers and asks for 5 seconds, any other asks for 600; as stated,
\* the delay then pending is always the one the pass asked for, also when a
\* timer was pending already.
C14_NextPassAfterAskedDelay ==
    [][\A s \in Passes :
          /\ (uns_pc[s] = "reschedule" /\ uns_pc'[s] # "reschedule") =>
                IF hasMinimumPeers(peers)
                THEN uns_pc'[s] = "scheduled" /\ nextRunDelaySeconds'[s] = 600
                ELSE uns_pc'[s] = "seeding" /\ nextRunDelaySeconds'[s] = 5
          /\ (uns_pc[s] # "scheduled" /\ uns_pc'[s] = "scheduled") =>
                /\ timers'[nextRunDelaySeconds'[s]] = 1
                /\ armed(timers') = 1]_vars

\* C14, amended: the pass asks for 5 seconds after populateSeedPeers when it
\* has too few peers and for 600 otherwise; that delay is armed if no timer is
\* pending, and if one is pending the request is dropped and the pending
\* timer, whatever its delay, starts the next pass.
C14_AskedDelayUnlessPending ==
    [][\A s \in Passes :
          /\ (uns_pc[s] = "reschedule" /\ uns_pc'[s] # "reschedule") =>
                IF hasMinimumPeers(peers)
                THEN uns_pc'[s] = "scheduled" /\ nextRunDelaySeconds'[s] = 600
                ELSE uns_pc'[s] = "seeding" /\ nextRunDelaySeconds'[s] = 5
          /\ (uns_pc[s] # "scheduled" /\ uns_pc'[s] = "scheduled") =>
                IF nextUpdateNetworkStatusScheduled
                THEN timers' = timers
                ELSE /\ timers'[nextRunDelaySeconds'[s]] = 1
                     /\ armed(timers') = 1]_vars

\* a pass asked for 5 seconds while the 600 second timer was pending
C14_Witness ==
    \E s \in Passes :
        /\ uns_pc[s] = "scheduled"
        /\ nextRunDelaySeconds[s] = 5
        /\ timers[600] = 1
        /\ timers[5] = 0

\* ---- the derivations, as the claims describe them
\* the positions of the peers whose height is set, and how many of them are
\* below or at a height
WithHeight == {i \in 1..Len(peerStates) : peerStates[i].height # 0}
Below(h) == Cardinality({i \in WithHeight : peerStates[i].height < h})
UpTo(h) == Cardinality({i \in WithHeight : peerStates[i].height <= h})
\* h is the element at index k, counted from 0, of the ascending sort
AtSortedIndex(h, k) ==
    /\ \E i \in WithHeight : peerStates[i].height = h
    /\ Below(h) <= k
    /\ k < UpTo(h)

\* C15: getNetworkHeight returns 0 when no active peer has a height set, and
\* otherwise the lower median of the heights that are set, a value that is
\* among them.
C15_LowerMedian ==
    derive_pc = "height" =>
        IF WithHeight = {} THEN networkHeight = 0
        ELSE AtSortedIndex(networkHeight, lowerMiddle(Cardinality(WithHeight)))

\* C15, amended: getNetworkHeight returns 0 when no active peer has a height
\* set, and otherwise the element at index floor(n/2), counted from 0, of the
\* ascending sort of the n heights that are set: the median when n is odd, the
\* upper of the two middle values when n is even.
C15_ElementAtHalf ==
    derive_pc = "height" =>
        IF WithHeight = {} THEN networkHeight = 0
        ELSE AtSortedIndex(networkHeight, Cardinality(WithHeight) \div 2)

\* two different heights are set, and the higher one is returned
C15_Witness ==
    /\ derive_pc = "height"
    /\ Cardinality(WithHeight) = 2
    /\ \E i, j \in WithHeight :
          /\ peerStates[i].height < peerStates[j].height
          /\ networkHeight = peerStates[j].height

\* C16: getPBFTForgingStatus returns allowed/synced, synced being the peers
\* whose currentSlot is the current slot and allowed those of them with
\* forgingAllowed and a height >= getNetworkHeight(); it returns 0 when synced
\* is 0, and what it returns lies in [0, 1].
Synced == {i \in 1..Len(peerStates) : peerStates[i].currentSlot = slotNumber}
Allowed == {i \in Synced : /\ peerStates[i].forgingAllowed
                           /\ peerStates[i].height >= networkHeight}
C16_AllowedOverSynced ==
    derive_pc = "pbft" =>
        /\ IF Synced = {} THEN pbft.num = 0
           ELSE /\ pbft.num = Cardinality(Allowed)
                /\ pbft.den = Cardinality(Synced)
        /\ pbft.den > 0
        /\ 0 <= pbft.num
        /\ pbft.num <= pbft.den

\* some synced peers may forge and some, being too low, may not
C16_Witness ==
    /\ derive_pc = "pbft"
    /\ pbft.num > 0
    /\ pbft.num < pbft.den
    /\ \E i \in Synced : peerStates[i].forgingAllowed /\ peerStates[i].height < networkHeight

\* C17: a peer whose lastPinged is null has not been pinged recently; right
\* after a ping that the remote answered it has; and a ping without forcePing
\* made within the freshness window of the last answered one issues no
\* getStatus call and returns the cached status.
C17_FreshPingIsCached ==
    /\ lastPinged = 0 => ~recentlyPinged(lastPinged, now)
    /\ (pingCall.pc = "returned" /\ pingCall.remote /\ now = lastPinged) =>
          recentlyPinged(lastPinged, now)
    /\ (/\ pingCall.pc # "idle"
        /\ ~pingCall.forcePing
        /\ pingCall.last # 0
        /\ pingCall.at - pingCall.last < freshness) =>
          /\ ~pingCall.remote
          /\ pingCall.pc = "returned"
          /\ pingCall.result = pingCall.cached

\* a second ping, a tick after the first was answered, got the cached status
C17_Witness ==
    /\ pingCall.pc = "returned"
    /\ ~pingCall.forcePing
    /\ ~pingCall.remote
    /\ pingCall.last # 0
    /\ pingCall.at > pingCall.last
    /\ pingCall.result = peerStatus

\* C18: when peers.list is empty or absent, start force-exits: the step of start
\* that runs populateSeedPeers ends the process, leaves the storage and the
\* pings in flight as they were, and the pass start awaits is never begun
NoSeeds == noPeerList(peersList) \/ peersList.list = << >>
C18_NoSeedsIsFatal ==
    [][NoSeeds =>
          /\ (start_pc = "new" /\ start_pc' # "new") =>
                 /\ start_pc' = "exited"
                 /\ peers' = peers
                 /\ suspendedPeers' = suspendedPeers
                 /\ pinging' = pinging
          /\ uns_pc'[1] \in {"idle", "exited"}]_vars

\* C19: a failure of communicator.downloadBlocks is not returned to the caller
\* of syncWithNetwork: no call ends rejected with the download's error
C19_DownloadFailureNotReturned ==
    ~(sync_pc = "rejected" /\ sync_result = "DownloadError")

\* C20: an error thrown by discoverPeers or cleanPeers in a pass is logged and
\* the pass goes on to the rescheduling step; a pass at that step leads to a
\* pending timer, and with discovery enabled a pending timer leads to the start
\* of the next pass, which again reaches the rescheduling step: the loop never
\* stops rescheduling itself
DiscoveryOn == ~config.testEnv /\ ~config.networkStart /\ ~config.disableDiscovery
C20_ErrorLoggedAndLoopGoesOn ==
    /\ [][\A s \in Passes :
             (uns_pc[s] = "clean" /\ uns_pc'[s] # "clean") =>
                 /\ uns_pc'[s] = "reschedule"
                 /\ cleanLog'.outcome = "TypeError" => uns_error'[s] = "TypeError"]_vars
    /\ \A s \in Passes :
          (uns_pc[s] = "reschedule") ~> nextUpdateNetworkStatusScheduled
    /\ (DiscoveryOn /\ nextUpdateNetworkStatusScheduled) ~>
          (~nextUpdateNetworkStatusScheduled /\ \E s \in Passes : uns_pc[s] = "discover")
    /\ \A s \in Passes : (uns_pc[s] = "discover") ~> (uns_pc[s] = "reschedule")

\* a pass whose cleanPeers threw has logged the error and rescheduled, and the
\* timer has since fired and started the next pass
C20_Witness ==
    \E s, t \in Passes :
        /\ s # t
        /\ uns_error[s] = "TypeError"
        /\ uns_pc[s] = "scheduled"
        /\ uns_pc[t] = "discover"
        /\ ~nextUpdateNetworkStatusScheduled
        /\ armed(timers) = 0

\* C21: discoverPeers asks each peer of its snapshot at most once (the peer
\* asked leaves the ones still to ask, and these never change otherwise), asks
\* no peer once hasMinimumPeers() holds and 4 peers have answered, counts no
\* failed getPeers, ends only for that reason or because the snapshot is used
\* up, and every call ends
IssuesGetPeers == disc_pc # "getPeers" /\ disc_pc' = "getPeers"
StillToAsk == IF disc_pc = "idle" THEN ipsOf(getPeers(peers)) ELSE disc_todo
C21_DiscoverPeersStops ==
    /\ [][/\ IssuesGetPeers =>
                /\ \E ip \in StillToAsk : disc_todo' = StillToAsk \ {ip}
                /\ ~(hasMinimumPeers(peers') /\ disc_queried' >= 4)
          /\ (disc_pc # "idle" /\ disc_pc' # "idle" /\ ~IssuesGetPeers) =>
                disc_todo' = disc_todo
          /\ DiscoverError => (disc_queried' = disc_queried /\ disc_pc' = "check")
          /\ (disc_pc = "check" /\ disc_pc' = "done") =>
                \/ disc_todo = {}
                \/ hasMinimumPeers(peers) /\ disc_queried >= 4]_vars
    /\ (disc_pc \in {"getPeers", "check"}) ~> (disc_pc = "done")

\* a call that ended after four answers with peers of its snapshot not asked
C21_Witness ==
    /\ disc_pc = "done"
    /\ disc_queried >= 4
    /\ disc_todo # {}
    /\ hasMinimumPeers(peers)

\* C22: a call of updateNetworkStatus with networkStart = true, or made while
\* config.disableDiscovery is set, goes to its return and nowhere else: it
\* runs no discoverPeers, cleanPeers or populateSeedPeers, leaves the storage
\* as it is and arms no timer; start with skipDiscovery set goes from the
\* seeding to its end without a call of updateNetworkStatus
NoOp(s) ==
    /\ uns_pc'[s] = "skipped"
    /\ UNCHANGED << peers, suspendedPeers, pinging, cleanLog >>
    /\ armed(timers') <= armed(timers)
    /\ nextUpdateNetworkStatusScheduled' => nextUpdateNetworkStatusScheduled
C22_GuardedCallIsNoOp ==
    [][/\ \A s \in Passes :
             /\ UpdateNetworkStatus(s, TRUE) => NoOp(s)
             /\ (config'.disableDiscovery /\ uns_pc[s] = "idle" /\ uns_pc'[s] # "idle") =>
                   NoOp(s)
             /\ (config.networkStart /\ start_pc = "seeding" /\ s = 1
                    /\ uns_pc'[s] # uns_pc[s]) => NoOp(s)
             /\ uns_pc[s] = "skipped" =>
                   /\ uns_pc'[s] \in {"skipped", "idle"}
                   /\ uns_pc'[s] = "idle" =>
                         UNCHANGED << peers, suspendedPeers, pinging, cleanLog, timers,
                                      nextUpdateNetworkStatusScheduled >>
       /\ (config.skipDiscovery /\ start_pc = "seeding" /\ start_pc' # "seeding") =>
             /\ start_pc' = "started"
             /\ uns_pc' = uns_pc]_vars

\* start has called updateNetworkStatus(true) on a node that has peers, and
\* the call is at its return: no pass, no timer
C22_Witness ==
    /\ config.networkStart /\ ~config.testEnv /\ ~config.disableDiscovery
    /\ start_pc = "updating"
    /\ uns_pc[1] = "skipped"
    /\ peers # {}
    /\ armed(timers) = 0

\* C23: broadcastBlock delays only when the ping is about its block, with
\* diff < 500 and proba > 0; when the ping read after the delay is about
\* another block the call is over, abandoned, and has issued no postBlock
C23_AbandonedAfterDelay ==
    [][/\ (bb_pc # "delay" /\ bb_pc' = "delay") =>
             \E blockPing \in BlockPings :
                /\ blockPing.id = bb_block'
                /\ blockPing.diff < 500
                /\ proba(blockPing) > 0
                /\ BroadcastBlock(TRUE, bb_block', blockPing)
       /\ \A blockPing \in BlockPings :
             (blockPing.id # bb_block /\ BroadcastBlockDelayed(blockPing)) =>
                /\ bb_pc' = "resolved"
                /\ bb_result' = "abandoned"
       /\ bb_result' = "abandoned" => (bb_posts' = {} /\ bb_pending' = {})]_vars

\* a call that had active peers to post to was abandoned after its delay
C23_Witness ==
    /\ bb_pc = "resolved"
    /\ bb_result = "abandoned"
    /\ bb_peers # {}
    /\ bb_posts = {}

\* C26: a ping about the block being broadcast with count >= maxHop makes
\* broadcastBlock go on at once, without a delay, and post to no peer; with
\* no ping, or a ping about another block, it posts to every active peer
C26_NoneWhenHopsUsedUpElseAll ==
    [][\A block \in BlockIds, blockPing \in BlockPings \cup {NoPing} :
          BroadcastBlock(TRUE, block, blockPing) =>
             IF blockPing # NoPing /\ blockPing.id = block
             THEN blockPing.count >= 4 =>
                     /\ bb_pc' = "resolved"
                     /\ bb_posts' = {}
                     /\ bb_pending' = {}
             ELSE /\ {call.ip : call \in bb_posts'} = ipsOf(peers)
                  /\ bb_pending' = ipsOf(peers)
                  /\ bb_pc' # "delay"]_vars

\* a broadcast with active peers posted to none, its hops being used up
C26_Witness ==
    /\ bb_pc = "resolved"
    /\ bb_ping # NoPing
    /\ bb_ping.id = bb_block
    /\ bb_ping.count >= 4
    /\ bb_posts = {}
    /\ peers # {}

\* C24: when refreshPeersAfterFork is over and the state holds a forked block,
\* the peer with that block's ip is suspended and is not active
RefreshOver == refresh_pc \in {"done", "rejected"}
C24_ForkCauserSuspended ==
    [][(~RefreshOver /\ RefreshOver' /\ stateForkedBlock # NoIP) =>
          /\ hasSuspendedPeer(suspendedPeers', stateForkedBlock)
          /\ ~hasPeer(peers', stateForkedBlock)]_vars

\* C25: a cleanPeers pass pings only entries that are in the storage, emits
\* "peer.removed" only with a peer that was active, and what it emitted for
\* is exactly what it took out of the active set
C25_RemovedOncePerPresence ==
    [][CleanPeers(pingable(peers) \cap net_down) =>
          /\ cleanLog'.pinged \subseteq peers
          /\ cleanLog'.removed \subseteq peers
          /\ peers' = peers \ cleanLog'.removed]_vars

====
